---- MODULE Spec2Model ----
(***************************************************************************)
(* Model of app.py, the Streamlit rainfall dashboard.                      *)
(*                                                                         *)
(* One Streamlit session is a sequence of script runs: the first load and  *)
(* one rerun per widget interaction.  A run executes app.py from line 1 to *)
(* the end (or to the first uncaught exception).  The model keeps the      *)
(* script's globals of the latest run, the st.cache_data entry of          *)
(* load_data, st.session_state and the browser's dialog state.             *)
(*                                                                         *)
(* Strings that the script builds, takes apart or orders (column names,    *)
(* state names) are sequences of code points, so that f-strings,           *)
(* str.replace, int() and sorted() are computed, not assumed.  Rainfall    *)
(* values are fixed-point numbers in units of 0.001 mm, so round(3) is the *)
(* rounding of a quotient to an integer; binary floating-point error is    *)
(* not modelled.  The geometry column and everything the plotting          *)
(* libraries draw are left out.                                            *)
(***************************************************************************)
EXTENDS Integers, Sequences, FiniteSets, TLC

VARIABLES
    file,               \* the table stored in the .geojson file
    cache,              \* st.cache_data entries of load_data (no arguments: at most one)
    session_state,      \* st.session_state, restricted to the key the script assigns
    loaded,             \* the first run of the session has happened
    dialog_open,        \* the "Dashboard Information" dialog is on screen
    opened_by,          \* which line of the latest run opened the dialog
    view_info_rendered, \* the latest run rendered the sidebar "View Info" button
    run_status,         \* how the latest run ended
    gdf, df_new, years, states,
    year_selected, year_data,
    top3, low3, top_display, low_display,
    national_avg,
    state_selected, state_data

vars == << file, cache, session_state, loaded, dialog_open, opened_by,
           view_info_rendered, run_status, gdf, df_new, years, states,
           year_selected, year_data, top3, low3, top_display, low_display,
           national_avg, state_selected, state_data >>

----------------------------------------------------------------------------
(* Bounds of the model *)

\* rows of the source table in the session specification
MaxRegions == 2
\* rainfall values are 0..MaxVal (units of 0.001 mm)
MaxVal == 2
\* rows of the source table in the year-views specification
MaxRankRows == 6
\* the tables of one size are numbered 0..MaxSessionSeed (session
\* specification) and 0..MaxRankSeed (year-views specification)
MaxSessionSeed == 1
MaxRankSeed == 66

----------------------------------------------------------------------------
(* Python values *)

\* None / NaN / an unbound value, and a present value
None == [some |-> FALSE]
Some(v) == [some |-> TRUE, val |-> v]

Range(s) == { s[i] : i \in 1..Len(s) }

Min2(a, b) == IF a < b THEN a ELSE b

----------------------------------------------------------------------------
(* Strings as sequences of code points *)

STR_STATE    == << 83, 116, 97, 116, 101 >>                 \* "State"
STR_YEAR     == << 89, 101, 97, 114 >>                      \* "Year"
STR_RAINFALL == << 82, 97, 105, 110, 102, 97, 108, 108, 32, 40, 109, 109, 41 >> \* "Rainfall (mm)"
STR_MEAN     == << 95, 109, 101, 97, 110 >>                 \* "_mean"
STR_NONE     == << 78, 111, 110, 101 >>                     \* "None"
STR_EMPTY    == << >>                                       \* ""

\* str(n) for an integer n >= 0
RECURSIVE FormatInt(_)
FormatInt(n) ==
    IF n < 10 THEN << 48 + n >>
    ELSE Append(FormatInt(n \div 10), 48 + (n % 10))

\* what "{x}" in an f-string gives for an int or None
FormatValue(x) == IF x.some THEN FormatInt(x.val) ELSE STR_NONE

\* int(s) for a string of decimal digits
RECURSIVE ParseDigits(_, _)
ParseDigits(s, n) ==
    IF n = 1 THEN s[1] - 48
    ELSE 10 * ParseDigits(s, n - 1) + (s[n] - 48)

ParseInt(s) == ParseDigits(s, Len(s))

\* pat occurs in s at position i
MatchAt(s, i, pat) ==
    /\ i + Len(pat) - 1 <= Len(s)
    /\ \A k \in 1..Len(pat) : s[i + k - 1] = pat[k]

\* s.replace(pat, rep), pat not empty: left to right, non-overlapping
RECURSIVE ReplaceFrom(_, _, _, _)
ReplaceFrom(s, i, pat, rep) ==
    IF i > Len(s) THEN << >>
    ELSE IF MatchAt(s, i, pat)
         THEN rep \o ReplaceFrom(s, i + Len(pat), pat, rep)
         ELSE << s[i] >> \o ReplaceFrom(s, i + 1, pat, rep)

StrReplace(s, pat, rep) == ReplaceFrom(s, 1, pat, rep)

\* a < b for Python strings: code-point lexicographic, a proper prefix is smaller
StrLess(a, b) ==
    \E k \in 1..(Min2(Len(a), Len(b)) + 1) :
        /\ SubSeq(a, 1, k - 1) = SubSeq(b, 1, k - 1)
        /\ \/ k > Len(a) /\ k <= Len(b)
           \/ k <= Len(a) /\ k <= Len(b) /\ a[k] < b[k]

----------------------------------------------------------------------------
(* Sequences: stable sort, unique *)

\* the sequence f[1], ..., f[n] as a tuple
Tuple(f, n) == SubSeq(f, 1, n)

\* a stable sort of s, less[i, j] saying that s[i] is smaller than s[j]:
\* equal elements keep their order
StableSort(s, less) ==
    LET n == Len(s)
        \* the place of s[i] in the result: after the smaller elements and the
        \* equal elements that precede it
        pos == Tuple([ i \in 1..n |->
                   Cardinality({ j \in 1..n :
                       \/ less[j, i]
                       \/ ~less[i, j] /\ j < i }) + 1 ], n)
    IN  Tuple([ p \in 1..n |-> s[CHOOSE i \in 1..n : pos[i] = p] ], n)

\* Series.unique(): the distinct values in order of first appearance
Unique(s) ==
    LET firsts == SelectSeq(Tuple([ i \in 1..Len(s) |-> i ], Len(s)),
                            LAMBDA i : \A j \in 1..(i - 1) : s[j] # s[i])
    IN  Tuple([ k \in 1..Len(firsts) |-> s[firsts[k]] ], Len(firsts))

\* sorted(xs) of Python (a stable sort), for ints and for strings
SortedInts(s) == StableSort(s, [ i, j \in 1..Len(s) |-> s[i] < s[j] ])
SortedStrs(s) == StableSort(s, [ i, j \in 1..Len(s) |-> StrLess(s[i], s[j]) ])

Head_n(s, n) == SubSeq(s, 1, Min2(n, Len(s)))

RECURSIVE SumSeq(_)
SumSeq(s) == IF s = << >> THEN 0 ELSE Head(s) + SumSeq(Tail(s))

----------------------------------------------------------------------------
(* Data frames: a set of column names and a sequence of rows, each row a  *)
(* function from the column names to values                                *)

EmptyFrame == [columns |-> {}, rows |-> << >>]

\* df[col] as the sequence of its values
Column(df, col) == Tuple([ i \in 1..Len(df.rows) |-> df.rows[i][col] ], Len(df.rows))

\* df[col] = values (a new column, or an existing one overwritten)
SetColumn(df, col, values) ==
    [ columns |-> df.columns \cup {col},
      rows |-> Tuple([ i \in 1..Len(df.rows) |-> (col :> values[i]) @@ df.rows[i] ],
                     Len(df.rows)) ]

\* df[df[col] == x]: the rows whose col equals x (no row equals None)
FilterEq(df, col, x) ==
    [ columns |-> df.columns,
      rows |-> IF x.some
               THEN SelectSeq(df.rows, LAMBDA r : r[col] = x.val)
               ELSE << >> ]

\* df[[c1, c2, ...]]
Project(df, cols) ==
    [ columns |-> cols,
      rows |-> Tuple([ i \in 1..Len(df.rows) |-> [ c \in cols |-> df.rows[i][c] ] ],
                     Len(df.rows)) ]

\* df.melt(id_vars=[id], value_vars=value_vars, var_name=..., value_name=...):
\* for each value column in turn, one row per source row, in source order
Melt(df, id, value_vars, var_name, value_name) ==
    LET n == Len(df.rows)
        cols == { id, var_name, value_name }
    IN  [ columns |-> cols,
          rows |-> Tuple([ k \in 1..(n * Len(value_vars)) |->
                             LET v == value_vars[((k - 1) \div n) + 1]
                                 r == df.rows[((k - 1) % n) + 1]
                             IN  (id :> r[id]) @@ (var_name :> v) @@ (value_name :> r[v]) ],
                         n * Len(value_vars)) ]

\* a slip: sort_values(col, ascending=False)
SortValues_descending(df, col) ==
    [ columns |-> df.columns,
      rows |-> StableSort(df.rows, [ i, j \in 1..Len(df.rows) |-> df.rows[i][col] > df.rows[j][col] ]) ]

\* df.sort_values(col) for an integer column
SortValues(df, col) ==
    [ columns |-> df.columns,
      rows |-> StableSort(df.rows, [ i, j \in 1..Len(df.rows) |-> df.rows[i][col] < df.rows[j][col] ]) ]

Reverse(s) == Tuple([ i \in 1..Len(s) |-> s[Len(s) + 1 - i] ], Len(s))

\* a slip: nlargest(n, col, keep='last'), the later of equal rows first
Nlargest_keepLast(df, n, col) ==
    [ columns |-> df.columns,
      rows |-> Head_n(StableSort(Reverse(df.rows),
                  [ i, j \in 1..Len(df.rows) |->
                      Reverse(df.rows)[i][col] > Reverse(df.rows)[j][col] ]), n) ]

\* df.nlargest(n, col): the n rows with the largest col, largest first;
\* keep='first': of equal values the earlier row comes first
Nlargest(df, n, col) ==
    [ columns |-> df.columns,
      rows |-> Head_n(StableSort(df.rows,
                  [ i, j \in 1..Len(df.rows) |-> df.rows[i][col] > df.rows[j][col] ]), n) ]

\* df.nsmallest(n, col): the n rows with the smallest col, smallest first
Nsmallest(df, n, col) ==
    [ columns |-> df.columns,
      rows |-> Head_n(StableSort(df.rows,
                  [ i, j \in 1..Len(df.rows) |-> df.rows[i][col] < df.rows[j][col] ]), n) ]

\* a slip: the quotient cut off after 3 decimals instead of rounded
RoundDiv_truncate(num, den) == num \div den

\* Series.mean().round(3) in units of 0.001: the quotient rounded to the
\* nearest integer, halves to the even one; NaN for an empty series
RoundDiv(num, den) ==
    LET q == num \div den
        r == num % den
    IN  IF 2 * r < den THEN q
        ELSE IF 2 * r > den THEN q + 1
        ELSE IF q % 2 = 0 THEN q ELSE q + 1

MeanRound3(values) ==
    IF values = << >> THEN None
    ELSE Some(RoundDiv(SumSeq(values), Len(values)))

\* st.selectbox(label, options, index): the user's choice if there is one,
\* else options[index]; None when there are no options
Selectbox(options, index, chosen) ==
    IF options = << >> THEN None
    ELSE IF chosen.some /\ chosen.val \in Range(options) THEN chosen
    ELSE Some(options[index + 1])

----------------------------------------------------------------------------
(* The script, top to bottom *)

\* range(2014, 2025)
YearFirst == 2014
YearStop  == 2025

\* nlargest(3, ...), nsmallest(3, ...)
RankK == 3

\* a slip: range(2014, 2024), the last year left out
ValueVars_shortRange ==
    Tuple([ i \in 1..(YearStop - 1 - YearFirst) |-> FormatInt(YearFirst + i - 1) \o STR_MEAN ],
          YearStop - 1 - YearFirst)

\* [f"{year}_mean" for year in range(2014, 2025)]
ValueVars ==
    Tuple([ i \in 1..(YearStop - YearFirst) |-> FormatInt(YearFirst + i - 1) \o STR_MEAN ],
          YearStop - YearFirst)

\* gdf = load_data() under @st.cache_data: the file is read on a cache miss,
\* later runs get the cached value
LoadData(c, f) == IF c = {} THEN f ELSE CHOOSE t \in c : TRUE

CacheAfterLoad(c, f) == IF c = {} THEN {f} ELSE c

\* a slip: @st.cache_resource, which hands every run the cached object itself
CacheAfterAssign_shared(c, assigned) == { assigned }

\* st.cache_data hands each run its own copy of the cached value, so what a
\* run assigns into its gdf stays in that run
CacheAfterAssign(c, assigned) == c

\* df_new = gdf.melt(...); df_new["Year"] = df_new["Year"].str.replace("_mean", "").astype(int)
DfNew(g) ==
    LET m == Melt(g, STR_STATE, ValueVars, STR_YEAR, STR_RAINFALL)
    IN  SetColumn(m, STR_YEAR,
            Tuple([ i \in 1..Len(m.rows) |->
                      ParseInt(StrReplace(m.rows[i][STR_YEAR], STR_MEAN, STR_EMPTY)) ],
                  Len(m.rows)))

\* years = sorted(df_new["Year"].unique())
Years(df) == SortedInts(Unique(Column(df, STR_YEAR)))

\* states = sorted(df_new["State"].unique())
States(df) == SortedStrs(Unique(Column(df, STR_STATE)))

\* a slip: the default index left at 0
YearSelected_firstOption(yrs, chosen) == Selectbox(yrs, 0, chosen)

\* year_selected = st.selectbox("Select Year", years, index=len(years)-1)
YearSelected(yrs, chosen) == Selectbox(yrs, Len(yrs) - 1, chosen)

\* year_data = df_new[df_new['Year'] == year_selected].copy()
YearData(df, y) == FilterEq(df, STR_YEAR, y)

\* column_name = f"{year_selected}_mean"
ColumnName(y) == FormatValue(y) \o STR_MEAN

\* gdf['Rainfall (mm)'] = gdf[column_name].astype(float)
\* (KeyError when gdf has no such column: see Rerun)
GdfWithRainfall(g, col) == SetColumn(g, STR_RAINFALL, Column(g, col))

\* top3 = year_data.nlargest(3, 'Rainfall (mm)')[['State', 'Rainfall (mm)']].reset_index(drop=True)
Top3(yd) == Project(Nlargest(yd, RankK, STR_RAINFALL), { STR_STATE, STR_RAINFALL })

\* a slip: the top3 line copied without changing nlargest to nsmallest
Low3_copyOfTop3(yd) == Project(Nlargest(yd, RankK, STR_RAINFALL), { STR_STATE, STR_RAINFALL })

\* low3 = year_data.nsmallest(3, 'Rainfall (mm)')[['State', 'Rainfall (mm)']].reset_index(drop=True)
Low3(yd) == Project(Nsmallest(yd, RankK, STR_RAINFALL), { STR_STATE, STR_RAINFALL })

\* if not top3.empty: st.table(...) else: st.write("No data")
Display(df) == IF df.rows # << >> THEN "table" ELSE "No data"

\* national_avg = year_data["Rainfall (mm)"].mean().round(3)
NationalAvg(yd) == MeanRound3(Column(yd, STR_RAINFALL))

\* state_selected = st.selectbox(..., states, key="state_chart", index=0)
StateSelected(sts, chosen) == Selectbox(sts, 0, chosen)

\* state_data = df_new[df_new['State'] == state_selected].sort_values('Year')
StateData(df, st) == SortValues(FilterEq(df, STR_STATE, st), STR_YEAR)

\* st.session_state as a dictionary
EmptyDict == [ k \in {} |-> FALSE ]
SetItem(d, k, v) == [ x \in (DOMAIN d) \cup {k} |-> IF x = k THEN v ELSE d[x] ]

\* if "show_info" not in st.session_state: st.session_state.show_info = True
InitSessionState(ss) ==
    IF "show_info" \notin DOMAIN ss THEN SetItem(ss, "show_info", TRUE) ELSE ss

\* the OK button of the dialog: st.session_state.show_info = False
DismissSessionState(ss) == SetItem(ss, "show_info", FALSE)

\* The last block of the script: which line, if any, calls show_info_modal()
\*   if st.session_state.show_info: show_info_modal()
\*   else: with st.sidebar: if st.button("View Info"): show_info_modal()
OpenedBy(ss, clicked) ==
    IF ss["show_info"] THEN "auto"
    ELSE IF clicked THEN "View Info"
    ELSE "none"

\* the sidebar button is rendered only in the else branch
ViewInfoRendered(ss) == ~ss["show_info"]

\* One run of the script.  ss is st.session_state at the start of the run,
\* ychosen and schosen are the values the two selectboxes hold (None before
\* the user has chosen), clicked says that this run was caused by a click on
\* "View Info".
Rerun(ss, ychosen, schosen, clicked) ==
    /\ file' = file
    /\ loaded' = TRUE
    /\ df_new' = DfNew(LoadData(cache, file))
    /\ years' = Years(df_new')
    /\ states' = States(df_new')
    /\ year_selected' = YearSelected(years', ychosen)
    /\ year_data' = YearData(df_new', year_selected')
    /\ IF ColumnName(year_selected') \in LoadData(cache, file).columns
       THEN /\ run_status' = "ok"
            /\ gdf' = GdfWithRainfall(LoadData(cache, file), ColumnName(year_selected'))
            /\ cache' = CacheAfterAssign(CacheAfterLoad(cache, file), gdf')
            /\ top3' = Top3(year_data')
            /\ low3' = Low3(year_data')
            /\ top_display' = Display(top3')
            /\ low_display' = Display(low3')
            /\ national_avg' = NationalAvg(year_data')
            /\ state_selected' = StateSelected(states', schosen)
            /\ state_data' = StateData(df_new', state_selected')
            /\ session_state' = InitSessionState(ss)
            /\ opened_by' = OpenedBy(session_state', clicked)
            /\ dialog_open' = (opened_by' # "none")
            /\ view_info_rendered' = ViewInfoRendered(session_state')
       ELSE \* gdf[column_name] raises KeyError at line 58: the run stops there
            /\ run_status' = "KeyError"
            /\ gdf' = LoadData(cache, file)
            /\ cache' = CacheAfterLoad(cache, file)
            /\ top3' = EmptyFrame
            /\ low3' = EmptyFrame
            /\ top_display' = "none"
            /\ low_display' = "none"
            /\ national_avg' = None
            /\ state_selected' = None
            /\ state_data' = EmptyFrame
            /\ session_state' = ss
            /\ opened_by' = "none"
            /\ dialog_open' = FALSE
            /\ view_info_rendered' = FALSE

----------------------------------------------------------------------------
(* Source tables *)

NAME_EDO   == << 69, 100, 111 >>            \* "Edo"
NAME_EKITI == << 69, 107, 105, 116, 105 >>  \* "Ekiti"
NAME_IMO   == << 73, 109, 111 >>            \* "Imo"
NAME_KANO  == << 75, 97, 110, 111 >>        \* "Kano"
NAME_OGUN  == << 79, 103, 117, 110 >>       \* "Ogun"
NAME_OSUN  == << 79, 115, 117, 110 >>       \* "Osun"
NAME_OYO   == << 79, 121, 111 >>            \* "Oyo"
NAME_YOBE  == << 89, 111, 98, 101 >>        \* "Yobe"

\* the state names of the session tables, and those of the year-views
\* tables; neither is in alphabetical order
SessionNames == << NAME_OYO, NAME_EDO, NAME_OGUN >>

RankNames == << NAME_KANO, NAME_EDO, NAME_YOBE, NAME_IMO,
                NAME_OSUN, NAME_EKITI, NAME_OYO, NAME_OGUN >>

RECURSIVE Power(_, _)
Power(b, e) == IF e = 0 THEN 1 ELSE b * Power(b, e - 1)

\* digit i (from 1, the lowest) of x written in base MaxVal + 1
ValueDigit(x, i) == (x \div Power(MaxVal + 1, i - 1)) % (MaxVal + 1)

\* A source table: one row per name, in the order given, with the columns
\* State and 2014_mean .. 2024_mean.  The values of year column j are the
\* digits of a number that depends on seed and j, one digit per row, so
\* that the year slices of the tables numbered 0, 1, 2, ... run through the
\* value vectors, equal values included.
MkTable(names, seed) ==
    LET cols == { STR_STATE } \cup Range(ValueVars)
        nyears == Len(ValueVars)
    IN  [ columns |-> cols,
          rows |-> Tuple([ i \in 1..Len(names) |->
                     [ c \in cols |->
                         IF c = STR_STATE THEN names[i]
                         ELSE LET j == CHOOSE j \in 1..nyears : ValueVars[j] = c
                              IN  ValueDigit((seed * nyears + (j - 1)) * 131, i) ] ],
                     Len(names)) ]

\* n names of a sequence, starting at offset r and wrapping round
Rotation(names, n, r) ==
    Tuple([ i \in 1..n |-> names[((r + i - 1) % Len(names)) + 1] ], n)

\* session tables: 1..MaxRegions rows, one row per state (the input contract)
SessionTables ==
    { MkTable(Rotation(SessionNames, n, r), seed) :
        n \in 1..Min2(MaxRegions, Len(SessionNames)),
        r \in 0..(Len(SessionNames) - 1),
        seed \in 0..MaxSessionSeed }

\* year-views tables: 0..MaxRankRows rows
RankTables ==
    { MkTable(SubSeq(RankNames, 1, n), seed) :
        n \in 0..Min2(MaxRankRows, Len(RankNames)),
        seed \in 0..MaxRankSeed }

----------------------------------------------------------------------------
(* The session *)

\* before the first run: nothing cached, an empty session state, no globals
InitWith(tables) ==
    /\ file \in tables
    /\ cache = {}
    /\ session_state = EmptyDict
    /\ loaded = FALSE
    /\ dialog_open = FALSE
    /\ opened_by = "none"
    /\ view_info_rendered = FALSE
    /\ run_status = "not run"
    /\ gdf = EmptyFrame
    /\ df_new = EmptyFrame
    /\ years = << >>
    /\ states = << >>
    /\ year_selected = None
    /\ year_data = EmptyFrame
    /\ top3 = EmptyFrame
    /\ low3 = EmptyFrame
    /\ top_display = "none"
    /\ low_display = "none"
    /\ national_avg = None
    /\ state_selected = None
    /\ state_data = EmptyFrame

Init == InitWith(SessionTables)

InitYear == InitWith(RankTables)

\* the browser opens the page: the first run of the script
FirstLoad ==
    /\ ~loaded
    /\ Rerun(session_state, None, None, FALSE)

\* the user picks another year in "Select Year": a rerun
SelectYear ==
    /\ loaded
    /\ ~dialog_open
    /\ \E y \in Range(years) :
        /\ Some(y) # year_selected
        /\ Rerun(session_state, Some(y), state_selected, FALSE)

\* the user picks another state in the line chart's selectbox: a rerun
SelectRegion ==
    /\ loaded
    /\ ~dialog_open
    /\ run_status = "ok"
    /\ \E r \in Range(states) :
        /\ Some(r) # state_selected
        /\ Rerun(session_state, year_selected, Some(r), FALSE)

\* the user presses OK in the dialog: show_info = False, then st.rerun()
PressOK ==
    /\ dialog_open
    /\ Rerun(DismissSessionState(session_state), year_selected, state_selected, FALSE)

\* the user closes the dialog with its X (or Esc): no rerun, no script line runs
CloseDialog ==
    /\ dialog_open
    /\ dialog_open' = FALSE
    /\ UNCHANGED << file, cache, session_state, loaded, opened_by,
                    view_info_rendered, run_status, gdf, df_new, years, states,
                    year_selected, year_data, top3, low3, top_display,
                    low_display, national_avg, state_selected, state_data >>

\* a slip: the button written to reopen the dialog through the flag,
\*   if st.button("View Info"): st.session_state.show_info = True; st.rerun()
PressViewInfo_setsFlag ==
    /\ view_info_rendered
    /\ ~dialog_open
    /\ Rerun(SetItem(session_state, "show_info", TRUE), year_selected, state_selected, FALSE)

\* the user presses "View Info" in the sidebar: a rerun in which the button is True
PressViewInfo ==
    /\ view_info_rendered
    /\ ~dialog_open
    /\ Rerun(session_state, year_selected, state_selected, TRUE)

Next ==
    \/ FirstLoad
    \/ SelectYear
    \/ SelectRegion
    \/ PressOK
    \/ CloseDialog
    \/ PressViewInfo

Spec == Init /\ [][Next]_vars

\* the year-driven views on larger tables: load, dismiss the dialog, change the year
NextYear ==
    \/ FirstLoad
    \/ PressOK
    \/ SelectYear

SpecYear == InitYear /\ [][NextYear]_vars

----------------------------------------------------------------------------
(* Properties *)

HasFlag == "show_info" \in DOMAIN session_state
Flag == session_state["show_info"]

RunOk == loaded /\ run_status = "ok"

\* the state names of the table as stored
SourceStates == { file.rows[i][STR_STATE] : i \in 1..Len(file.rows) }

\* the slice of the selected year: its size, values and state names by row
SliceLen == Len(year_data.rows)
SliceVal(i) == year_data.rows[i][STR_RAINFALL]
SliceState(i) == year_data.rows[i][STR_STATE]

\* the state names listed in a ranking, and the place of a state in it
Listed(rank) == { rank.rows[p][STR_STATE] : p \in 1..Len(rank.rows) }
PlaceIn(rank, name) == CHOOSE p \in 1..Len(rank.rows) : rank.rows[p][STR_STATE] = name

\* the k-th largest and the k-th smallest value of the slice (k <= SliceLen)
KthLargest(k) ==
    CHOOSE v \in { SliceVal(i) : i \in 1..SliceLen } :
        /\ Cardinality({ i \in 1..SliceLen : SliceVal(i) > v }) < k
        /\ Cardinality({ i \in 1..SliceLen : SliceVal(i) >= v }) >= k
KthSmallest(k) ==
    CHOOSE v \in { SliceVal(i) : i \in 1..SliceLen } :
        /\ Cardinality({ i \in 1..SliceLen : SliceVal(i) < v }) < k
        /\ Cardinality({ i \in 1..SliceLen : SliceVal(i) <= v }) >= k

\* C1 (as claimed): the dialog opens automatically only in the first run of
\* the session, every later opening is caused by "View Info", and whenever
\* the dialog is not on screen after a run the "View Info" button is there.
C1_DialogAutoOnce ==
    [][ /\ (~dialog_open /\ dialog_open' /\ loaded) => opened_by' = "View Info"
        /\ (~dialog_open /\ dialog_open' /\ opened_by' = "auto") => ~loaded
        /\ (loaded' /\ ~dialog_open') => view_info_rendered' ]_vars

\* C2: the long-form table has N * 11 records, its (State, Year) pairs are
\* exactly the source states x 2014..2024, and each record carries the value
\* of its state's "{year}_mean" column, the year being an integer.
C2_LongForm ==
    loaded =>
        /\ Len(df_new.rows) = Len(file.rows) * 11
        /\ { << df_new.rows[k][STR_STATE], df_new.rows[k][STR_YEAR] >> :
                k \in 1..Len(df_new.rows) } = SourceStates \X (2014..2024)
        /\ \A k \in 1..Len(df_new.rows) : \A i \in 1..Len(file.rows) :
              file.rows[i][STR_STATE] = df_new.rows[k][STR_STATE] =>
                  df_new.rows[k][STR_RAINFALL] =
                      file.rows[i][FormatInt(df_new.rows[k][STR_YEAR]) \o STR_MEAN]

C2_Witness ==
    /\ loaded
    /\ Len(file.rows) = 2
    /\ Len(df_new.rows) = 22
    /\ \E k \in 1..Len(df_new.rows) :
          df_new.rows[k][STR_YEAR] = 2024 /\ df_new.rows[k][STR_RAINFALL] > 0

\* C3 (as claimed): with at least 6 rows in the slice, whatever the values,
\* the top 3 and the bottom 3 have no row in common.
C3_NeverOverlap ==
    (RunOk /\ SliceLen >= 6) => Listed(top3) \cap Listed(low3) = {}

\* C3 (amended): with at least 6 rows in the slice, the top 3 and the bottom
\* 3 have no row in common exactly when the third largest value is greater
\* than the third smallest value; when the two are equal, they share a row.
C3_OverlapIffTied ==
    (RunOk /\ SliceLen >= 6) =>
        ((Listed(top3) \cap Listed(low3) = {}) <=> (KthLargest(3) > KthSmallest(3)))

C3_Witness ==
    /\ RunOk
    /\ SliceLen >= 6
    /\ KthLargest(3) > KthSmallest(3)
    /\ \E i, j \in 1..SliceLen : i # j /\ SliceVal(i) = SliceVal(j)
    /\ Listed(top3) \cap Listed(low3) = {}

\* what C4 says of the two lists apart from the comparison between them
\* (sign 1 for the top list, -1 for the bottom list):
\* min(3, n) rows each, rows of the slice; the top list holds the largest
\* values in descending order, the bottom list the smallest in ascending
\* order; of rows with equal values the earlier one is preferred and listed
\* first
RankShape(rank, sign) ==
    /\ Len(rank.rows) = Min2(3, SliceLen)
    /\ \A p \in 1..Len(rank.rows) : \E i \in 1..SliceLen :
          /\ rank.rows[p][STR_STATE] = SliceState(i)
          /\ rank.rows[p][STR_RAINFALL] = SliceVal(i)
    /\ \A p, q \in 1..Len(rank.rows) :
          p < q => sign * rank.rows[q][STR_RAINFALL] <= sign * rank.rows[p][STR_RAINFALL]
    /\ \A i, j \in 1..SliceLen :
          (SliceState(i) \in Listed(rank) /\ SliceState(j) \notin Listed(rank))
              => sign * SliceVal(j) <= sign * SliceVal(i)
    /\ \A i, j \in 1..SliceLen :
          (i < j /\ SliceVal(i) = SliceVal(j) /\ SliceState(j) \in Listed(rank))
              => /\ SliceState(i) \in Listed(rank)
                 /\ PlaceIn(rank, SliceState(i)) < PlaceIn(rank, SliceState(j))

TopAboveBottom ==
    \A p \in 1..Len(top3.rows) : \A q \in 1..Len(low3.rows) :
        top3.rows[p][STR_RAINFALL] >= low3.rows[q][STR_RAINFALL]

\* the ranking of a slice with no rows: a year that has no record
EmptySliceRanks ==
    /\ Top3(YearData(df_new, Some(YearStop))).rows = << >>
    /\ Low3(YearData(df_new, Some(YearStop))).rows = << >>

\* C4 (as claimed): for a slice of n rows both lists have min(3, n) rows, the
\* top list the largest values in descending order, the bottom list the
\* smallest, ties by original row order, and every top value is >= every
\* bottom value.
C4_RankAllSizes ==
    RunOk =>
        /\ RankShape(top3, 1)
        /\ RankShape(low3, -1)
        /\ TopAboveBottom

\* C4 (amended): as claimed, except that every top value is >= every bottom
\* value only for slices of at least 5 rows (or of at most 1 row); with 2 to
\* 4 rows the two lists share rows and the top list's smallest value is below
\* the bottom list's largest unless values are equal.
C4_RankExtremes ==
    /\ loaded => EmptySliceRanks
    /\ RunOk =>
        /\ RankShape(top3, 1)
        /\ RankShape(low3, -1)
        /\ (SliceLen >= 5 \/ SliceLen <= 1) => TopAboveBottom

C4_Witness ==
    /\ RunOk
    /\ SliceLen >= 5
    /\ \E i, j \in 1..SliceLen :
          /\ i < j
          /\ SliceVal(i) = SliceVal(j)
          /\ SliceState(i) \in Listed(top3)
          /\ SliceState(j) \notin Listed(top3)
    /\ \E i, j \in 1..SliceLen :
          /\ i < j
          /\ SliceVal(i) = SliceVal(j)
          /\ SliceState(i) \in Listed(low3)
          /\ SliceState(j) \notin Listed(low3)

\* C5 (as claimed): a run whose selected year has no rows in the long-form
\* table ends without a fatal error and shows "No data" for both lists.
C5_EmptySliceNoData ==
    (loaded /\ year_data.rows = << >>) =>
        /\ run_status = "ok"
        /\ top_display = "No data"
        /\ low_display = "No data"

\* C6: the series of every state of the derived state set has one record
\* per year 2014..2024 in ascending order without gaps (11 records, all of
\* that state); the series of a name that is not in the table is empty; the
\* line chart's series is the series of the selected state.
C6_SeriesForRegion ==
    loaded =>
        /\ \A name \in Range(SessionNames) :
              LET series == StateData(df_new, Some(name)).rows
              IN  IF name \in Range(states)
                  THEN /\ Len(series) = 11
                       /\ \A k \in 1..Len(series) :
                             /\ series[k][STR_YEAR] = 2014 + (k - 1)
                             /\ series[k][STR_STATE] = name
                  ELSE series = << >>
        /\ state_selected.some
        /\ state_data.rows = StateData(df_new, state_selected).rows
        /\ Len(state_data.rows) = 11
        /\ \A k \in 1..Len(state_data.rows) :
              /\ state_data.rows[k][STR_YEAR] = 2014 + (k - 1)
              /\ state_data.rows[k][STR_STATE] = state_selected.val

C6_Witness ==
    /\ loaded
    /\ Range(SessionNames) \ Range(states) # {}
    /\ Len(states) = 2
    /\ state_selected # Some(states[1])
    /\ Len(state_data.rows) = 11

\* C7: after every run the selected year is in the derived year set and the
\* selected state in the derived state set; after the first run the selected
\* year is the largest year and the selected state the smallest name in
\* lexicographic order.
C7_SelectionsInSets ==
    [][ /\ loaded' =>
            /\ year_selected'.some
            /\ year_selected'.val \in Range(years')
            /\ state_selected'.some
            /\ state_selected'.val \in Range(states')
        /\ (~loaded /\ loaded') =>
            /\ \A y \in Range(years') : y <= year_selected'.val
            /\ \A n \in Range(states') :
                  n = state_selected'.val \/ StrLess(state_selected'.val, n) ]_vars

C7_Witness ==
    /\ loaded
    /\ Len(states) = 2
    /\ \E y \in Range(years) : y > year_selected.val
    /\ \E n \in Range(states) : StrLess(n, state_selected.val)

\* the sum of the slice's values, row by row
RECURSIVE SliceSum(_)
SliceSum(n) == IF n = 0 THEN 0 ELSE SliceSum(n - 1) + SliceVal(n)

\* C8: for a slice with rows the national average is the sum of the slice's
\* values divided by the number of rows, rounded to 3 decimals: it is a
\* multiple of 0.001 (the unit) at most half a unit from the quotient.
C8_NationalMean ==
    (RunOk /\ SliceLen > 0) =>
        /\ national_avg.some
        /\ 2 * (SliceLen * national_avg.val - SliceSum(SliceLen)) <= SliceLen
        /\ 2 * (SliceSum(SliceLen) - SliceLen * national_avg.val) <= SliceLen

C8_Witness ==
    /\ RunOk
    /\ SliceLen >= 3
    /\ 2 * (SliceSum(SliceLen) % SliceLen) > SliceLen
    /\ national_avg.val = (SliceSum(SliceLen) \div SliceLen) + 1

\* C9 (as claimed): the table of a run has the rows, columns and values of
\* the table as loaded, whatever the interactions before it.
C9_TableAsLoaded ==
    loaded => gdf = file

\* C9 (amended): the cached table is the table as loaded and no run changes
\* it; every run starts from it, so the long-form table is that of the
\* loaded table; the run's own copy keeps the loaded rows and columns and
\* gains one column, 'Rainfall (mm)', holding the selected year's values.
C9_CachedTableFrame ==
    loaded =>
        /\ cache = { file }
        /\ LoadData(cache, file) = file
        /\ df_new = DfNew(file)
        /\ gdf.columns = file.columns \cup { STR_RAINFALL }
        /\ STR_RAINFALL \notin file.columns
        /\ Project(gdf, file.columns).rows = file.rows
        /\ Column(gdf, STR_RAINFALL) = Column(file, FormatInt(year_selected.val) \o STR_MEAN)

C9_Witness ==
    /\ loaded
    /\ Len(file.rows) = 2
    /\ \E y \in Range(years) : y > year_selected.val
    /\ state_selected # Some(states[1])
    /\ ~Flag
    /\ gdf # file
    /\ cache = { file }

\* C10: the first run sets show_info to True; after that only the dialog's
\* OK changes it, to False; a year change, a state change, closing the
\* dialog and "View Info" leave it as it is; once False it stays False.
C10_FlagFrame ==
    [][ /\ ~loaded => (HasFlag' /\ Flag')
        /\ loaded => (HasFlag /\ HasFlag')
        /\ PressOK => ~Flag'
        /\ (loaded /\ Flag' # Flag) => (PressOK /\ ~Flag')
        /\ (loaded /\ ~Flag) => ~Flag' ]_vars

C10_Witness ==
    /\ loaded
    /\ ~Flag
    /\ dialog_open
    /\ opened_by = "View Info"
    /\ \E y \in Range(years) : y > year_selected.val

====
